---- MODULE Spec2Model ----
(***************************************************************************)
(* The bounded-concurrency processing queue of the useQueue hook           *)
(* (src/unnamed/part_005).                                                 *)
(*                                                                         *)
(* The hook runs on one JavaScript thread: every action below is one       *)
(* run-to-completion task (an event handler, a React render with its       *)
(* effect, a timer callback, or the continuation of an await).  State      *)
(* updaters passed to setQueue are applied in the order they are issued,   *)
(* so the store `queue` is kept as their running result; what a closure    *)
(* created by a render sees is the value of the store at that render.      *)
(***************************************************************************)
EXTENDS Integers, Sequences, FiniteSets, Bags, TLC

(* ---------------------------------------------------------------- bounds *)
\* caller-assigned identifiers offered to the queue
Ids == {"a", "b"}
\* number of caller operations (add/remove/retry/pause/resume/clear) explored
MaxOps == 4
\* processQueue instances that may be suspended in their delay at one time
MaxLoops == 2
\* backoff timers that may be outstanding at one time
MaxTimers == 1
\* largest value of an item's retries field that is explored
RetriesCap == 2
\* largest number of lifecycle callbacks counted per id
CallbackCap == 2
\* largest store drawn as the starting point of the store-update specification
MaxItems == 3

(* --------------------------------------------------------- configuration *)
\* options.maxRetries (chosen by the caller)
maxRetries == 1

NoError == "undefined"
ErrMessage == "message"
ActiveSet == {"uploading", "analyzing", "extracting"}

VARIABLES
    maxConcurrent,  \* options.maxConcurrent: a positive integer the caller
                    \* chooses when it creates the queue; it never changes
    queue,          \* useState: the item store, a sequence of QueueItem
    isPaused,       \* useState: the pause flag
    dirty,          \* a state update (setQueue, setIsPaused) awaits its render
    activeCount,    \* useRef: activeCount.current
    processingRef,  \* useRef: processingRef.current
    loops,          \* bag of processQueue closures suspended at the delay
    calls,          \* bag of processItem closures suspended at await processor
    timers,         \* number of backoff timers not yet fired
    callbacks,      \* per id: onItemComplete/onItemError calls since enqueue/retryItem
    resumed,        \* the number of pending items when the caller's latest
                    \* operation, resume(), was made with a free concurrency
                    \* slot; 0 otherwise
    ops,            \* number of caller operations performed
    lastOp          \* the removeFromQueue or retryItem call made by the latest
                    \* task, with the status its item had before the call;
                    \* NoOp when the latest task was anything else

vars == <<maxConcurrent, queue, isPaused, dirty, activeCount, processingRef, loops, calls,
          timers, callbacks, resumed, ops, lastOp>>

(* ----------------------------------------------------------- QueueItem *)
QueueItem(id) == [id |-> id, status |-> "pending", retries |-> 0, error |-> NoError]

IsPending(item) == item.status = "pending"

HasId(q, id) == \E i \in DOMAIN q : q[i].id = id

\* the status of the first item with this id, "absent" when there is none
StatusOf(q, id) ==
    IF HasId(q, id) THEN q[CHOOSE i \in DOMAIN q : q[i].id = id].status ELSE "absent"

NoOp == [op |-> "none", id |-> "none", was |-> "absent"]

Min(a, b) == IF a < b THEN a ELSE b

\* an updateItemStatus that would insert the item when its id is missing
updateItemStatus_upsert(q, id, status, error) ==
    IF HasId(q, id)
    THEN [i \in DOMAIN q |->
            IF q[i].id = id THEN [q[i] EXCEPT !.status = status, !.error = error]
            ELSE q[i]]
    ELSE Append(q, [id |-> id, status |-> status, retries |-> 0, error |-> error])

\* updateItemStatus: prev.map(item => item.id === id ? {...item, status, error} : item)
updateItemStatus(q, id, status, error) ==
    [i \in DOMAIN q |->
        IF q[i].id = id THEN [q[i] EXCEPT !.status = status, !.error = error]
        ELSE q[i]]

\* the retry updater of processItem: status back to pending, retries + 1
requeueItem(q, id) ==
    [i \in DOMAIN q |->
        IF q[i].id = id
        THEN [q[i] EXCEPT !.status = "pending", !.retries = q[i].retries + 1]
        ELSE q[i]]

\* a retryItem updater that would keep the retry count
resetItem_keepRetries(q, id) ==
    [i \in DOMAIN q |->
        IF q[i].id = id
        THEN [q[i] EXCEPT !.status = "pending", !.error = NoError]
        ELSE q[i]]

\* the updater of retryItem
resetItem(q, id) ==
    [i \in DOMAIN q |->
        IF q[i].id = id
        THEN [q[i] EXCEPT !.status = "pending", !.retries = 0, !.error = NoError]
        ELSE q[i]]

\* a removeFromQueue updater that would spare an item being processed
withoutItem_spareActive(q, id) ==
    SelectSeq(q, LAMBDA item : item.id # id \/ item.status \in ActiveSet)

\* the updater of removeFromQueue
withoutItem(q, id) == SelectSeq(q, LAMBDA item : item.id # id)

(* ----------------------------------------------------------------- stats *)
CountStatus(q, S) == Cardinality({i \in DOMAIN q : q[i].status \in S})

\* a stats whose processing count would leave out the extracting items
stats_withoutExtracting ==
    [total      |-> Len(queue),
     pending    |-> CountStatus(queue, {"pending"}),
     processing |-> CountStatus(queue, {"uploading", "analyzing"}),
     complete   |-> CountStatus(queue, {"complete"}),
     error      |-> CountStatus(queue, {"error"})]

stats ==
    [total      |-> Len(queue),
     pending    |-> CountStatus(queue, {"pending"}),
     processing |-> CountStatus(queue, ActiveSet),
     complete   |-> CountStatus(queue, {"complete"}),
     error      |-> CountStatus(queue, {"error"})]

(* ------------------------------------------------------------------ Init *)
Init ==
    /\ maxConcurrent = 1
    /\ queue = << >>
    /\ isPaused = FALSE
    /\ dirty = FALSE
    /\ activeCount = 0
    /\ processingRef = FALSE
    /\ loops = EmptyBag
    /\ calls = EmptyBag
    /\ timers = 0
    /\ callbacks = [id \in Ids |-> 0]
    /\ resumed = 0
    /\ ops = 0
    /\ lastOp = NoOp

(* ------------------------------------------------- processItem, part one *)
\* What one dispatch does to the store before the first await:
\* updateItemStatus(id,'uploading') in processQueue, then 'analyzing' and
\* 'extracting' in processItem; the three run in one synchronous step.
startedItem(q, id) ==
    updateItemStatus(
        updateItemStatus(
            updateItemStatus(q, id, "uploading", NoError),
            id, "analyzing", NoError),
        id, "extracting", NoError)

\* the closure of a processItem call: the item object handed over by the loop
CallOf(item) == [id |-> item.id, retries |-> item.retries]

\* the closure of a processQueue call.  queue and isPaused are constants of
\* the closure, so pendingItems = queue.filter(pending) and nextItem =
\* pendingItems[0] are the same at every pass of one instance: the closure
\* is kept as that nextItem (None when pendingItems is empty) and isPaused.
None == [id |-> "none", retries |-> 0]

LoopOf(q, paused) ==
    LET pendingItems == SelectSeq(q, IsPending) IN
    [nextItem |-> IF Len(pendingItems) = 0 THEN None ELSE CallOf(pendingItems[1]),
     isPaused |-> paused]

(* ------------------------------------------------------- processQueue *)
\* One pass of the while body, run by the instance with closure c; others
\* are the instances suspended besides it, d is whether a state update is
\* outstanding before the pass, ref is processingRef.current before the pass.
\* The pass reads the closure's queue and isPaused and the live
\* activeCount.current; leaving the loop clears processingRef.current.
\* a pass that would not look at the counter
LoopBreaks_noCapCheck(c) ==
    \/ c.isPaused
    \/ c.nextItem = None

LoopBreaks(c) ==
    \/ c.isPaused
    \/ c.nextItem = None
    \/ activeCount >= maxConcurrent

iterate(c, others, d, ref) ==
    IF LoopBreaks(c)
    THEN /\ processingRef' = FALSE
         /\ loops' = others
         /\ dirty' = d
         /\ UNCHANGED <<queue, activeCount, calls>>
    ELSE /\ queue' = startedItem(queue, c.nextItem.id)
         /\ dirty' = TRUE
         /\ activeCount' = activeCount + 1
         /\ calls' = calls (+) SetToBag({c.nextItem})
         /\ loops' = others (+) SetToBag({c})
         /\ processingRef' = ref

\* useEffect (deps queue, isPaused, processQueue): the render that follows a
\* state update calls processQueue() of that render, whose closure holds the
\* store and the pause flag as rendered; the call runs up to its first await.
Render ==
    /\ dirty
    /\ IF processingRef \/ isPaused
       THEN /\ dirty' = FALSE
            /\ UNCHANGED <<queue, activeCount, processingRef, loops, calls>>
       ELSE /\ LoopBreaks(LoopOf(queue, isPaused)) \/ BagCardinality(loops) < MaxLoops
            /\ iterate(LoopOf(queue, isPaused), loops, FALSE, TRUE)
    /\ lastOp' = NoOp
    /\ UNCHANGED maxConcurrent
    /\ UNCHANGED <<isPaused, timers, callbacks, resumed, ops>>

\* the 100 ms delay of a suspended processQueue instance elapses: next pass
wake(c) ==
    /\ BagIn(c, loops)
    /\ iterate(c, loops (-) SetToBag({c}), dirty, processingRef)
    /\ lastOp' = NoOp
    /\ UNCHANGED maxConcurrent
    /\ UNCHANGED <<isPaused, timers, callbacks, resumed, ops>>

LoopWake == \E c \in BagToSet(loops) : wake(c)

(* ------------------------------------------------- processItem, part two *)
\* a resolution that would skip onItemComplete for an id no longer stored
settleSuccess_skipRemoved(c) ==
    /\ BagIn(c, calls)
    /\ queue' = updateItemStatus(queue, c.id, "complete", NoError)
    /\ dirty' = TRUE
    /\ callbacks' = IF HasId(queue, c.id)
                    THEN [callbacks EXCEPT ![c.id] = Min(@ + 1, CallbackCap)]
                    ELSE callbacks
    /\ activeCount' = activeCount - 1
    /\ calls' = calls (-) SetToBag({c})
    /\ lastOp' = NoOp
    /\ UNCHANGED maxConcurrent
    /\ UNCHANGED <<isPaused, processingRef, loops, timers, resumed, ops>>

\* the processor's promise of call c resolves: lines 51-52, then finally
settleSuccess(c) ==
    /\ BagIn(c, calls)
    /\ queue' = updateItemStatus(queue, c.id, "complete", NoError)
    /\ dirty' = TRUE
    /\ callbacks' = [callbacks EXCEPT ![c.id] = Min(@ + 1, CallbackCap)]
    /\ activeCount' = activeCount - 1
    /\ calls' = calls (-) SetToBag({c})
    /\ lastOp' = NoOp
    /\ UNCHANGED maxConcurrent
    /\ UNCHANGED <<isPaused, processingRef, loops, timers, resumed, ops>>

\* the processor's promise of call c rejects: the catch block, then finally.
\* The retry decision reads item.retries of the closure, the updater reads
\* q.retries of the store.
settleFailure(c) ==
    /\ BagIn(c, calls)
    /\ IF c.retries < maxRetries
       THEN /\ timers < MaxTimers
            /\ \A i \in DOMAIN queue :
                   queue[i].id = c.id => queue[i].retries < RetriesCap
            /\ queue' = requeueItem(queue, c.id)
            /\ timers' = timers + 1
            /\ UNCHANGED callbacks
       ELSE /\ queue' = updateItemStatus(queue, c.id, "error", ErrMessage)
            /\ callbacks' = [callbacks EXCEPT ![c.id] = Min(@ + 1, CallbackCap)]
            /\ UNCHANGED timers
    /\ dirty' = TRUE
    /\ activeCount' = activeCount - 1
    /\ calls' = calls (-) SetToBag({c})
    /\ lastOp' = NoOp
    /\ UNCHANGED maxConcurrent
    /\ UNCHANGED <<isPaused, processingRef, loops, resumed, ops>>

SettleSuccess == \E c \in BagToSet(calls) : settleSuccess(c)
SettleFailure == \E c \in BagToSet(calls) : settleFailure(c)

\* a backoff timer set at line 65 fires
TimerFire ==
    /\ timers > 0
    /\ timers' = timers - 1
    /\ processingRef' = FALSE
    /\ lastOp' = NoOp
    /\ UNCHANGED maxConcurrent
    /\ UNCHANGED <<queue, isPaused, dirty, activeCount, loops, calls,
                   callbacks, resumed, ops>>

(* ------------------------------------------------------ caller operations *)
\* the handler appends whatever id it is given
addToQueue(id) ==
    /\ ops < MaxOps
    /\ queue' = Append(queue, QueueItem(id))
    /\ dirty' = TRUE
    /\ callbacks' = [callbacks EXCEPT ![id] = 0]
    /\ resumed' = 0
    /\ ops' = ops + 1
    /\ lastOp' = NoOp
    /\ UNCHANGED maxConcurrent
    /\ UNCHANGED <<isPaused, activeCount, processingRef, loops, calls, timers>>

removeFromQueue(id) ==
    /\ ops < MaxOps
    /\ queue' = withoutItem(queue, id)
    /\ dirty' = TRUE
    /\ resumed' = 0
    /\ ops' = ops + 1
    /\ lastOp' = [op |-> "removeFromQueue", id |-> id, was |-> StatusOf(queue, id)]
    /\ UNCHANGED maxConcurrent
    /\ UNCHANGED <<isPaused, activeCount, processingRef, loops, calls, timers,
                   callbacks>>

retryItem(id) ==
    /\ ops < MaxOps
    /\ queue' = resetItem(queue, id)
    /\ dirty' = TRUE
    /\ callbacks' = [callbacks EXCEPT ![id] = 0]
    /\ resumed' = 0
    /\ ops' = ops + 1
    /\ lastOp' = [op |-> "retryItem", id |-> id, was |-> StatusOf(queue, id)]
    /\ UNCHANGED maxConcurrent
    /\ UNCHANGED <<isPaused, activeCount, processingRef, loops, calls, timers>>

\* setIsPaused schedules a render only when the value changes
pause ==
    /\ ops < MaxOps
    /\ isPaused' = TRUE
    /\ dirty' = (dirty \/ ~isPaused)
    /\ resumed' = 0
    /\ ops' = ops + 1
    /\ lastOp' = NoOp
    /\ UNCHANGED maxConcurrent
    /\ UNCHANGED <<queue, activeCount, processingRef, loops, calls, timers,
                   callbacks>>

resume ==
    /\ ops < MaxOps
    /\ isPaused' = FALSE
    /\ dirty' = (dirty \/ isPaused)
    /\ processingRef' = FALSE
    /\ resumed' = (IF activeCount < maxConcurrent THEN stats.pending ELSE 0)
    /\ ops' = ops + 1
    /\ lastOp' = NoOp
    /\ UNCHANGED maxConcurrent
    /\ UNCHANGED <<queue, activeCount, loops, calls, timers, callbacks>>

clearQueue ==
    /\ ops < MaxOps
    /\ queue' = << >>
    /\ activeCount' = 0
    /\ dirty' = TRUE
    /\ resumed' = 0
    /\ ops' = ops + 1
    /\ lastOp' = NoOp
    /\ UNCHANGED maxConcurrent
    /\ UNCHANGED <<isPaused, processingRef, loops, calls, timers, callbacks>>

\* the caller enqueues under an id that no item of the store has (ids are
\* unique identifiers assigned by the caller)
AddToQueue == \E id \in Ids : ~HasId(queue, id) /\ addToQueue(id)
RemoveFromQueue == \E id \in Ids : removeFromQueue(id)
RetryItem == \E id \in Ids : retryItem(id)

Next ==
    \/ AddToQueue
    \/ RemoveFromQueue
    \/ RetryItem
    \/ pause
    \/ resume
    \/ clearQueue
    \/ Render
    \/ LoopWake
    \/ SettleSuccess
    \/ SettleFailure
    \/ TimerFire

Spec == Init /\ [][Next]_vars

(* ------------------------------------------- specifications with fairness *)
\* Every closure a processItem or processQueue call can hold.
CallClosures == [id : Ids, retries : 0..RetriesCap]
LoopClosures == [nextItem : CallClosures, isPaused : {FALSE}]

\* React renders after every state update, and every delay of a suspended
\* processQueue instance elapses.
SchedulerFair ==
    /\ WF_vars(Render)
    /\ \A c \in LoopClosures : WF_vars(wake(c))

\* The caller only enqueues; every processor call settles with success.
DrainNext ==
    \/ AddToQueue
    \/ Render
    \/ LoopWake
    \/ SettleSuccess

DrainSpec ==
    /\ Init /\ [][DrainNext]_vars
    /\ SchedulerFair
    /\ \A c \in CallClosures : WF_vars(settleSuccess(c))

\* The caller only enqueues; every processor call settles with failure and
\* every backoff timer fires.
FailNext ==
    \/ AddToQueue
    \/ Render
    \/ LoopWake
    \/ SettleFailure
    \/ TimerFire

FailSpec ==
    /\ Init /\ [][FailNext]_vars
    /\ SchedulerFair
    /\ WF_vars(TimerFire)
    /\ \A c \in CallClosures : WF_vars(settleFailure(c))

\* The caller enqueues, pauses and resumes, and stops after a resume() made
\* with a pending item and a free slot; every processor call succeeds.
ResumeNext ==
    \/ resumed = 0 /\ AddToQueue
    \/ resumed = 0 /\ pause
    \/ resumed = 0 /\ resume
    \/ Render
    \/ LoopWake
    \/ SettleSuccess

ResumeSpec ==
    /\ Init /\ [][ResumeNext]_vars
    /\ SchedulerFair
    /\ \A c \in CallClosures : WF_vars(settleSuccess(c))

\* The caller only enqueues; the processor fails at most maxRetries times for
\* an item before it succeeds.  Nothing resets retries here, so the retries of
\* the item in the store is the number of its calls that have failed so far.
transientFailure(c) ==
    /\ \E i \in DOMAIN queue : queue[i].id = c.id /\ queue[i].retries < maxRetries
    /\ settleFailure(c)

TransientFailure == \E c \in BagToSet(calls) : transientFailure(c)

TransientNext ==
    \/ AddToQueue
    \/ Render
    \/ LoopWake
    \/ SettleSuccess
    \/ TransientFailure
    \/ TimerFire

TransientSpec ==
    /\ Init /\ [][TransientNext]_vars
    /\ SchedulerFair
    /\ WF_vars(TimerFire)
    /\ \A c \in CallClosures : WF_vars(settleSuccess(c) \/ transientFailure(c))

\* The caller enqueues under any id, also one that an item of the store
\* already has; every processor call succeeds.
AddAnyToQueue == \E id \in Ids : addToQueue(id)

AnyIdNext ==
    \/ AddAnyToQueue
    \/ Render
    \/ LoopWake
    \/ SettleSuccess

AnyIdSpec == Init /\ [][AnyIdNext]_vars

(* --------------------------------------------- the store updaters alone *)
\* removeFromQueue and retryItem are pure updaters of the store.  They are
\* applied here to every store of at most MaxItems items with distinct ids:
\* a paused queue (so pending items may sit beside free slots) whose render
\* has run, whose loop instances have exited and whose timers have fired,
\* with one processor call in flight for every item being processed.
StoreIds == {"a", "b", "c"}

StoreItems ==
    {it \in [id : StoreIds, status : {"pending", "extracting", "complete", "error"},
             retries : 0..maxRetries, error : {NoError, ErrMessage}] :
        IF it.status = "error"
        THEN it.error = ErrMessage /\ it.retries = maxRetries
        ELSE it.error = NoError}

Stores ==
    {q \in UNION {[1..n -> StoreItems] : n \in 0..MaxItems} :
        /\ \A i, j \in DOMAIN q : q[i].id = q[j].id => i = j
        /\ CountStatus(q, ActiveSet) <= maxConcurrent}

StoreInit ==
    /\ maxConcurrent = 1
    /\ queue \in Stores
    /\ isPaused = TRUE
    /\ dirty = FALSE
    /\ activeCount = CountStatus(queue, ActiveSet)
    /\ processingRef = FALSE
    /\ loops = EmptyBag
    /\ calls = SetToBag({CallOf(queue[i]) : i \in {j \in DOMAIN queue : queue[j].status \in ActiveSet}})
    /\ timers = 0
    /\ callbacks = [id \in StoreIds |-> 0]
    /\ resumed = 0
    /\ ops = 0
    /\ lastOp = NoOp

StoreNext ==
    \/ \E id \in StoreIds : removeFromQueue(id)
    \/ \E id \in StoreIds : retryItem(id)

StoreSpec == StoreInit /\ [][StoreNext]_vars

(* ----------------------------------------------------- without clearQueue *)
\* every operation and step except clearQueue
NoClearNext ==
    \/ AddToQueue
    \/ RemoveFromQueue
    \/ RetryItem
    \/ pause
    \/ resume
    \/ Render
    \/ LoopWake
    \/ SettleSuccess
    \/ SettleFailure
    \/ TimerFire

NoClearSpec == Init /\ [][NoClearNext]_vars

(* ------------------------------------------------------- the initial fill *)
\* A queue created with maxConcurrent 1 or 2, idle and not paused.  The caller
\* enqueues up to three items in one go (before the render that follows the
\* first of them); then the loop runs and no processor call settles.
FillInit ==
    /\ maxConcurrent \in {1, 2}
    /\ queue = << >>
    /\ isPaused = FALSE
    /\ dirty = FALSE
    /\ activeCount = 0
    /\ processingRef = FALSE
    /\ loops = EmptyBag
    /\ calls = EmptyBag
    /\ timers = 0
    /\ callbacks = [id \in StoreIds |-> 0]
    /\ resumed = 0
    /\ ops = 0
    /\ lastOp = NoOp

EnqueueTogether ==
    /\ calls = EmptyBag
    /\ loops = EmptyBag
    /\ ~processingRef
    /\ \E id \in StoreIds : ~HasId(queue, id) /\ addToQueue(id)

FillNext ==
    \/ EnqueueTogether
    \/ Render
    \/ LoopWake

FillSpec == FillInit /\ [][FillNext]_vars

(* ================================================================ claims *)
\* number of unsettled processItem calls started for id
InFlight(id) ==
    LET S == {c \in BagToSet(calls) : c.id = id}
    IN BagCardinality([c \in S |-> CopiesIn(c, calls)])

\* C1: in every reachable state the number of store items whose status is
\* uploading, analyzing or extracting is at most maxConcurrent.
C1_ActiveWithinCap == stats.processing <= maxConcurrent

\* C2: for every id, at most one processor call started for that id is
\* unsettled at any time.
C2_NoDuplicateDispatch == \A id \in Ids : InFlight(id) <= 1

\* C3: the number of processor invocations started and not yet settled never
\* exceeds maxConcurrent, also after clearQueue or removeFromQueue issued
\* while calls are in flight.
C3_CallsWithinCap == BagCardinality(calls) <= maxConcurrent

\* C4: every item in the store has retries <= maxRetries, in every reachable
\* state.
C4_RetriesWithinBudget == \A i \in DOMAIN queue : queue[i].retries <= maxRetries

\* C5: an item all of whose processor calls fail and that the caller leaves
\* alone eventually reaches status error, has retries = maxRetries whenever
\* its status is error, and once in error is never dispatched again.
C5_FailingItemEndsInError ==
    /\ \A id \in Ids : (StatusOf(queue, id) # "absent") ~> (StatusOf(queue, id) = "error")
    /\ [](\A i \in DOMAIN queue :
            queue[i].status = "error" => queue[i].retries = maxRetries)
    /\ [][\A id \in Ids :
            StatusOf(queue, id) = "error" => StatusOf(queue', id) = "error"]_vars

\* C6: between an item's enqueue (or its latest retryItem) and its removal,
\* onItemComplete and onItemError together are invoked at most once for its
\* id, and exactly once if the item is complete or error.
C6_CallbackExactlyOnce ==
    \A i \in DOMAIN queue :
        /\ callbacks[queue[i].id] <= 1
        /\ queue[i].status \in {"complete", "error"} => callbacks[queue[i].id] = 1

Drained == stats.pending = 0 /\ stats.processing = 0 /\ stats.complete = stats.total

\* C7: with a processor that always succeeds and settles, the queue never
\* paused and finitely many enqueues, the queue eventually reaches and stays
\* in a state with pending = 0, active = 0 and complete = total.
C7_DrainLiveness == <>[]Drained

\* C8: from pause() until resume(), no item changes from a non-active status
\* to an active status and the processor is not newly invoked, even if a
\* processQueue instance was already running when pause() was called.
C8_PauseBlocksDispatch ==
    [][(isPaused /\ isPaused') =>
          /\ BagCardinality(calls') <= BagCardinality(calls)
          /\ \A i \in DOMAIN queue' : \A j \in DOMAIN queue :
                 (queue'[i].id = queue[j].id /\ queue'[i].status \in ActiveSet)
                     => queue[j].status \in ActiveSet]_vars

\* C9: after resume() on a queue that holds n >= 1 pending items and has a
\* free slot, and with no caller operation after it, a pending item is
\* eventually dispatched (the number of pending items drops below n).
C9_ResumeDispatches ==
    \A n \in 1..Cardinality(Ids) : (resumed = n) ~> (stats.pending < n)

\* C10: if the queue is not paused and every processor call settles, every
\* item that is pending is eventually dispatched.
C10_NoStarvation ==
    \A id \in Ids : (StatusOf(queue, id) = "pending") ~> (StatusOf(queue, id) # "pending")

\* position in the store of the first item with this id; addToQueue appends
\* and no updater reorders, so a smaller position is an earlier enqueue
IndexOf(q, id) == CHOOSE i \in DOMAIN q : q[i].id = id

\* C11: dispatch is FIFO: whenever a processQueue pass dispatches an item, no
\* item that is pending in the store at that moment was enqueued before it.
C11_FifoDispatch ==
    [][\A c \in CallClosures :
          (CopiesIn(c, calls') > CopiesIn(c, calls) /\ HasId(queue, c.id))
              => \A j \in 1..(IndexOf(queue, c.id) - 1) :
                     queue[j].status # "pending"]_vars

Kept(q, id) == {i \in DOMAIN q : q[i].id # id}

\* C13: removeFromQueue(id) removes the item with that id whatever its
\* status, keeps every other item as it was and in the same relative order,
\* and changes nothing when no item has that id.
C13_RemoveFrame ==
    [][lastOp'.op = "removeFromQueue" =>
          LET id == lastOp'.id
              K  == Kept(queue, id)
          IN /\ ~HasId(queue', id)
             /\ Len(queue') = Cardinality(K)
             /\ \A i \in K : queue'[Cardinality({j \in K : j <= i})] = queue[i]
             /\ ~HasId(queue, id) => queue' = queue]_vars

\* removeFromQueue has just removed an item that was being processed from a
\* store of three items; two items remain
C13_Witness ==
    /\ lastOp.op = "removeFromQueue"
    /\ lastOp.was = "extracting"
    /\ Len(queue) = 2
    /\ ops = 1

\* C14: retryItem(id) on an item in status error makes it pending with
\* retries 0 and no error, leaves every other item unchanged, and changes
\* nothing when no item has that id.
C14_RetryItemResets ==
    [][(lastOp'.op = "retryItem" /\ lastOp'.was \in {"error", "absent"}) =>
          /\ Len(queue') = Len(queue)
          /\ \A i \in DOMAIN queue :
                queue'[i] = IF queue[i].id = lastOp'.id
                            THEN [id |-> queue[i].id, status |-> "pending",
                                  retries |-> 0, error |-> NoError]
                            ELSE queue[i]]_vars

\* retryItem has just acted on an item that was in status error (retries =
\* maxRetries > 0, error message set) in a store holding other items too
C14_Witness ==
    /\ lastOp.op = "retryItem"
    /\ lastOp.was = "error"
    /\ Len(queue) = 3
    /\ \E i \in DOMAIN queue :
          /\ queue[i].id = lastOp.id
          /\ queue[i].status = "pending"
          /\ queue[i].retries = 0
          /\ queue[i].error = NoError

\* C15: complete and error are terminal: a step that is not a caller
\* operation (a processQueue pass, a settlement, a render, a timer) leaves
\* the status and retries of every complete or error item as they are.
C15_TerminalStatuses ==
    [][ops' = ops =>
          \A i \in DOMAIN queue :
              queue[i].status \in {"complete", "error"} =>
                  /\ queue'[i].status = queue[i].status
                  /\ queue'[i].retries = queue[i].retries]_vars

Recovered == stats.complete = stats.total /\ stats.error = 0 /\ stats.pending = 0

\* C16: when every item fails at most maxRetries times before it succeeds,
\* the queue is not paused and the caller stops after n operations, the queue
\* reaches complete = total, error = 0, pending = 0 after the last of them,
\* and no item is ever put in error (onItemError is never invoked).
C16_TransientFailuresRecover ==
    /\ \A n \in 0..MaxOps : <>[](ops = n) => <>(ops = n /\ Recovered)
    /\ [](stats.error = 0)

\* C17: each id appears at most once in the store, whatever the caller does,
\* also when addToQueue is called with an id that is already in the store.
C17_UniqueIds == \A i, j \in DOMAIN queue : queue[i].id = queue[j].id => i = j

\* C18: an item carries an error message only while its status is error:
\* every pending, uploading, analyzing, extracting or complete item has none.
C18_ErrorOnlyInErrorStatus ==
    \A i \in DOMAIN queue : queue[i].status # "error" => queue[i].error = NoError

\* the number of items of q whose status is in S, counted item by item
RECURSIVE Occurrences(_, _)
Occurrences(q, S) ==
    IF q = << >> THEN 0
    ELSE (IF Head(q).status \in S THEN 1 ELSE 0) + Occurrences(Tail(q), S)

\* C19: the stats snapshot is derived from the store: total is the number of
\* items, each of pending, processing (uploading, analyzing, extracting),
\* complete and error is the number of items of that status, and total is
\* their sum.
C19_StatsDerived ==
    LET st == stats IN
    /\ st.total = Len(queue)
    /\ st.pending = Occurrences(queue, {"pending"})
    /\ st.processing = Occurrences(queue, {"uploading", "analyzing", "extracting"})
    /\ st.complete = Occurrences(queue, {"complete"})
    /\ st.error = Occurrences(queue, {"error"})
    /\ st.total = st.pending + st.processing + st.complete + st.error

\* a store with items in two different statuses, one of them being processed
C19_Witness ==
    /\ stats.total = 2
    /\ stats.processing = 1
    /\ stats.error = 1

\* C20: at most one processQueue instance is between its entry guard and its
\* exit at any time, whatever renders, resume() calls and backoff timers
\* happen while an instance is suspended in its delay.
C20_SingleLoopInstance == BagCardinality(loops) <= 1

\* C21: the processor is invoked only for an item that is pending in the
\* store when the processQueue pass dispatches it: never for an item whose
\* current status is not pending, never for an id no longer in the store.
C21_DispatchesPendingOnly ==
    [][\A c \in CallClosures :
          CopiesIn(c, calls') > CopiesIn(c, calls)
              => StatusOf(queue, c.id) = "pending"]_vars

\* C22: whenever a processQueue instance is about to make its cap check (it
\* is suspended in its delay with a next item and not paused), the count it
\* compares with maxConcurrent is the number of store items being processed.
C22_CounterMatchesStore ==
    (\E c \in BagToSet(loops) : c.nextItem # None /\ ~c.isPaused)
        => activeCount = stats.processing

\* retries of the first item with this id in the store
RetriesOf(q, id) == q[CHOOSE i \in DOMAIN q : q[i].id = id].retries

\* C23: backoff gates redispatch: an item that has failed and been re-queued
\* is not dispatched again while the timer of that failure is outstanding.
\* (Stated for the items of a queue in which no other item has failed, so
\* that every outstanding timer is the dispatched item's own.)
C23_BackoffGatesRedispatch ==
    [][\A c \in CallClosures :
          (/\ CopiesIn(c, calls') > CopiesIn(c, calls)
           /\ HasId(queue, c.id)
           /\ RetriesOf(queue, c.id) >= 1
           /\ \A i \in DOMAIN queue : queue[i].id # c.id => queue[i].retries = 0)
              => timers = 0]_vars

\* C24: when a processor call for an item fails while the item's retries in
\* the store is r: if r < maxRetries the item becomes pending with retries
\* r + 1 and no callback is invoked; otherwise it becomes error with the
\* message, retries unchanged, and onItemError is invoked.
C24_RetryDecisionOnStoreRetries ==
    [][\A c \in CallClosures :
          (settleFailure(c) /\ HasId(queue, c.id)) =>
              \A i \in DOMAIN queue : queue[i].id = c.id =>
                  IF queue[i].retries < maxRetries
                  THEN /\ queue'[i].status = "pending"
                       /\ queue'[i].retries = queue[i].retries + 1
                       /\ callbacks'[c.id] = callbacks[c.id]
                  ELSE /\ queue'[i].status = "error"
                       /\ queue'[i].error = ErrMessage
                       /\ queue'[i].retries = queue[i].retries
                       /\ callbacks'[c.id] = Min(callbacks[c.id] + 1, CallbackCap)]_vars

\* a processor call for id is started / settles in this step
Dispatched(id) ==
    \E c \in CallClosures : c.id = id /\ CopiesIn(c, calls') > CopiesIn(c, calls)

Settled(id) ==
    \E c \in CallClosures : c.id = id /\ CopiesIn(c, calls') < CopiesIn(c, calls)

\* C25: an item leaves pending only by being dispatched (to an active
\* status), never by a settlement to complete or error; and an item becomes
\* pending only by a retry decision at the settlement of its own call or by
\* retryItem (a caller operation).  Items keep their position unless the caller
\* removes one, so the item at position i is compared before and after.
C25_PendingTransitions ==
    [][ops' = ops =>
          \A i \in DOMAIN queue :
              /\ (queue[i].status = "pending" /\ queue'[i].status # "pending")
                     => Dispatched(queue[i].id) /\ queue'[i].status \in ActiveSet
              /\ (queue[i].status # "pending" /\ queue'[i].status = "pending")
                     => Settled(queue[i].id)]_vars

\* the loop has run to its exit and every update has been rendered
FillDone == ~dirty /\ loops = EmptyBag /\ calls # EmptyBag

\* C26: initial fill: n > maxConcurrent items enqueued together into an idle
\* queue, no call settling: once the loop has exited, the first maxConcurrent
\* items in insertion order are being processed, each with exactly one
\* processor call, and the others are pending.
C26_InitialFill ==
    (FillDone /\ Len(queue) > maxConcurrent) =>
        \A i \in DOMAIN queue :
            IF i <= maxConcurrent
            THEN queue[i].status \in ActiveSet /\ InFlight(queue[i].id) = 1
            ELSE queue[i].status = "pending" /\ InFlight(queue[i].id) = 0

\* C27: every processQueue instance terminates: with no further enqueues it
\* leaves its loop after finitely many passes, whatever the processor's
\* latency (also when calls settle before the next pass), so a moment with
\* no instance inside the loop always comes again.
C27_LoopTerminates == []<>(loops = EmptyBag)

\* some item other than id has failed and been re-queued
OtherHasFailed(id) == \E i \in DOMAIN queue : queue[i].id # id /\ queue[i].retries >= 1

\* C28: failure isolation: the failure handling of a call for item X leaves
\* the record of every other item unchanged, and an item that is pending
\* after another item's failure is still eventually dispatched.
C28_FailureIsolation ==
    /\ [][\A c \in CallClosures :
             settleFailure(c) =>
                 /\ Len(queue') = Len(queue)
                 /\ \A i \in DOMAIN queue : queue[i].id # c.id => queue'[i] = queue[i]]_vars
    /\ \A id \in Ids :
          (StatusOf(queue, id) = "pending" /\ OtherHasFailed(id))
              ~> (StatusOf(queue, id) # "pending")

\* C29: when clearQueue is never called, the number of unsettled processor
\* calls never exceeds maxConcurrent, also with several processQueue
\* instances running at once, and activeCount.current is never negative.
C29_CapWithoutClear ==
    /\ activeCount = BagCardinality(calls)
    /\ activeCount >= 0
    /\ activeCount <= maxConcurrent

\* two processQueue instances are inside their loops while the cap is reached
C29_Witness ==
    /\ BagCardinality(loops) = 2
    /\ BagCardinality(calls) = maxConcurrent

\* C30: when the call of an item whose id is no longer in the store settles,
\* the lifecycle callback is still invoked for that id: onItemComplete on
\* success, onItemError on a failure of a call dispatched with retries >=
\* maxRetries.  (callbacks counts invocations up to CallbackCap.)
C30_CallbackAfterRemoval ==
    [][\A c \in BagToSet(calls) :
          (/\ ~HasId(queue, c.id)
           /\ settleSuccess(c) \/ (settleFailure(c) /\ c.retries >= maxRetries))
              => \/ callbacks'[c.id] = callbacks[c.id] + 1
                 \/ callbacks[c.id] = CallbackCap]_vars

\* one enqueue, its dispatch, clearQueue, then the settlement of the call
\* (the counter is negative only then) with one callback counted for the id
C30_Witness ==
    /\ ops = 2
    /\ queue = << >>
    /\ calls = EmptyBag
    /\ activeCount = -1
    /\ \E id \in Ids : callbacks[id] = 1

====
